---- MODULE Spec2Model ----
(***************************************************************************)
(* Model of the PeakInfer VS Code client (src/src/analysis.ts): the        *)
(* response normalizer (transformInferencePoint, mapSeverity), the result  *)
(* aggregator (createResultFromPoints, transformApiResponse, the grouping  *)
(* of AnalysisRunner.analyzeWorkspace), the analysis client                *)
(* (callAnalysisAPI) and the two commands analyzeFile / analyzeWorkspace    *)
(* with the diagnostics and results-panel sinks they feed.                  *)
(*                                                                         *)
(* Strings the code inspects (paths, ids) are sequences of one-character   *)
(* strings.  An optional (possibly undefined) field is a sequence of       *)
(* length 0 (absent) or 1 (present).  Confidence is held in tenths.        *)
(* Fields that transformInferencePoint copies verbatim and that no         *)
(* property reads (provider, model, framework, patterns, issue             *)
(* type/headline/evidence/suggestedFix, credits, analyzedAt) are left out. *)
(***************************************************************************)
EXTENDS Integers, Sequences, FiniteSets, TLC

VARIABLES
  \* --- one wire point through the normalizer (SpecNormalize)
  wirePoint,      \* the wire point handed to transformInferencePoint
  normPoint,      \* None, or Some(the InferencePoint it returned)
  \* --- one response through the aggregation paths (SpecAggregate)
  fileName,       \* the fileName argument of transformApiResponse
  apiPoints,      \* response.analysis.inferencePoints
  path,           \* "input", "single" (transformApiResponse), "workspace" (grouping)
  produced,       \* the AnalysisResult(s) the path returned
  \* --- the commands (Spec)
  pc,             \* phase of the current command
  cmd,            \* "none", "file", "workspace"
  uri,            \* the file the analyzeFile command was invoked on
  requests,       \* network requests sent by the current command
  response,       \* None, or Some(what callAnalysisAPI returned)
  httpOk,         \* response.ok of the reply received by the current command
  resultsByFile,  \* the insertion-ordered Map of analyzeWorkspace
  results,        \* what the runner returned to the command
  outcome,        \* how the runner call ended: kind and error message
  cancelled,      \* the CancellationToken handed to the workspace command
  diagnostics,    \* diagnostics sink: file -> the inference points shown
  panel,          \* results-panel sink: the AnalysisResults shown
  cancelPhase,    \* history: the phase in which Cancel was pressed, or "none"
  lastAnalysis,   \* history: file -> None / Some(points of its last successful analysis)
  invocations     \* history: number of commands started

normVars == <<wirePoint, normPoint>>
aggVars  == <<fileName, apiPoints, path, produced>>
cmdVars  == <<pc, cmd, uri, requests, response, httpOk, resultsByFile, results,
              outcome, cancelled, cancelPhase, diagnostics, panel, lastAnalysis,
              invocations>>
vars == <<normVars, aggVars, cmdVars>>

----------------------------------------------------------------------------
(* Bounds *)

MaxIssues == 2        \* issues on the wire point of SpecNormalize
MaxPoints == 3        \* wire points in one response
MaxTotalIssues == 3   \* issues over all points of one response
MaxInvocations == 3   \* commands started in one behaviour

----------------------------------------------------------------------------
(* Optional values and strings *)

None == <<>>
Some(x) == <<x>>
OptionOf(S) == {None} \cup {Some(x) : x \in S}

SeqsUpTo(S, n) == UNION {[1..k -> S] : k \in 0..n}

Str_da == <<"d", "/", "a">>     \* "d/a"
Str_a  == <<"a">>               \* "a"    same file, path relative to d
Str_xa == <<"x", "a">>          \* "xa"   another file whose name ends in "a"
Str_b  == <<"b">>               \* "b"
Str_p  == <<"p">>               \* a server-assigned id
EmptyStr == <<>>

\* Array.prototype.pop on String.prototype.split('/'): the text after the last "/"
LastSlash(s) ==
  IF \E i \in 1..Len(s) : s[i] = "/"
  THEN CHOOSE i \in 1..Len(s) : s[i] = "/" /\ \A j \in (i+1)..Len(s) : s[j] # "/"
  ELSE 0

Leaf(s) == SubSeq(s, LastSlash(s) + 1, Len(s))

\* String.prototype.endsWith
EndsWith(s, suffix) ==
  /\ Len(suffix) <= Len(s)
  /\ SubSeq(s, Len(s) - Len(suffix) + 1, Len(s)) = suffix

Digits == <<"0", "1", "2", "3", "4", "5", "6", "7", "8", "9">>

\* number -> decimal string, as a template literal renders it
RECURSIVE DecStr(_)
DecStr(n) ==
  IF n < 10 THEN <<Digits[n + 1]>>
  ELSE DecStr(n \div 10) \o <<Digits[(n % 10) + 1]>>

----------------------------------------------------------------------------
(* Response normalizer *)

\* confidence: apiPoint.confidence || 0.9, in tenths
DefaultConfidence == 9

mapSeverity_WarningDropped(severity) ==
  CASE severity = "critical" -> "critical"
    [] severity = "info"     -> "low"
    [] OTHER                 -> "medium"

mapSeverity(severity) ==
  CASE severity = "critical" -> "critical"
    [] severity = "warning"  -> "high"
    [] severity = "info"     -> "low"
    [] OTHER                 -> "medium"

\* JavaScript truthiness of an optional string / optional number
TruthyStr(o) == o # None /\ o[1] # EmptyStr
TruthyNum(o) == o # None /\ o[1] # 0

\* apiPoint.issues || []
IssuesOrEmpty(o) == IF o # None THEN o[1] ELSE <<>>

transformInferencePoint(apiPoint) ==
  [ id         |-> IF TruthyStr(apiPoint.id) THEN apiPoint.id[1]
                   ELSE apiPoint.file \o <<":">> \o DecStr(apiPoint.line),
    file       |-> apiPoint.file,
    line       |-> apiPoint.line,
    column     |-> apiPoint.column,
    issues     |-> [i \in 1..Len(IssuesOrEmpty(apiPoint.issues)) |->
                      [severity |-> mapSeverity(IssuesOrEmpty(apiPoint.issues)[i].severity)]],
    confidence |-> IF TruthyNum(apiPoint.confidence) THEN apiPoint.confidence[1]
                   ELSE DefaultConfidence ]

----------------------------------------------------------------------------
(* Inputs of the normalizer *)

WireSeverities == {"critical", "warning", "info", "high", "low", "notice"}
WireConfidences == {0, 5, 9, 10}
WireIds == {EmptyStr, Str_p}
Tags == {Str_da, Str_a, Str_xa, Str_b}
LineNumbers == {1, 12}
Columns == {7, 30}

WireIssues(S) == [severity : S]

NormalizerInputs ==
  [ id         : OptionOf(WireIds),
    file       : {Str_da, Str_b},
    line       : LineNumbers,
    column     : OptionOf(Columns),
    issues     : OptionOf(SeqsUpTo(WireIssues(WireSeverities), MaxIssues)),
    confidence : OptionOf(WireConfidences) ]

CmdIdle ==
  /\ pc = "Idle" /\ cmd = "none" /\ uri = Str_da /\ requests = 0
  /\ response = None /\ httpOk = TRUE /\ resultsByFile = <<>> /\ results = <<>>
  /\ outcome = [kind |-> "none", message |-> <<>>]
  /\ cancelled = FALSE /\ cancelPhase = "none"
  /\ diagnostics = [f \in {Str_da, Str_b} |-> <<>>]
  /\ panel = <<>>
  /\ lastAnalysis = [f \in {Str_da, Str_b} |-> None]
  /\ invocations = 0

AggIdle ==
  /\ fileName = Str_da /\ apiPoints = <<>> /\ path = "input" /\ produced = <<>>

NormIdle ==
  /\ wirePoint = [id |-> None, file |-> Str_da, line |-> 1, column |-> None,
                  issues |-> None, confidence |-> None]
  /\ normPoint = None

InitNormalize ==
  /\ wirePoint \in NormalizerInputs
  /\ normPoint = None
  /\ AggIdle
  /\ CmdIdle

Normalize ==
  /\ normPoint = None
  /\ normPoint' = Some(transformInferencePoint(wirePoint))
  /\ UNCHANGED <<wirePoint, aggVars, cmdVars>>

NextNormalize == Normalize

SpecNormalize == InitNormalize /\ [][NextNormalize]_vars

----------------------------------------------------------------------------
(* Result aggregator *)

RECURSIVE CountIssues_MediumDropped(_, _, _)
CountIssues_MediumDropped(issues, j, acc) ==
  IF j > Len(issues) THEN acc
  ELSE CountIssues_MediumDropped(issues, j + 1,
         IF issues[j].severity = "critical"
         THEN [acc EXCEPT !.criticalIssues = @ + 1]
         ELSE IF issues[j].severity = "high"
              THEN [acc EXCEPT !.warnings = @ + 1]
              ELSE acc)

\* the inner loop of createResultFromPoints: for (const issue of point.issues || [])
RECURSIVE CountIssues(_, _, _)
CountIssues(issues, j, acc) ==
  IF j > Len(issues) THEN acc
  ELSE CountIssues(issues, j + 1,
         IF issues[j].severity = "critical"
         THEN [acc EXCEPT !.criticalIssues = @ + 1]
         ELSE IF issues[j].severity = "high" \/ issues[j].severity = "medium"
              THEN [acc EXCEPT !.warnings = @ + 1]
              ELSE acc)

\* the outer loop of createResultFromPoints: for (const point of inferencePoints)
RECURSIVE CountPoints(_, _, _)
CountPoints(inferencePoints, i, acc) ==
  IF i > Len(inferencePoints) THEN acc
  ELSE CountPoints(inferencePoints, i + 1,
                   CountIssues(inferencePoints[i].issues, 1, acc))

createResultFromPoints(file, inferencePoints) ==
  LET counts == CountPoints(inferencePoints, 1, [criticalIssues |-> 0, warnings |-> 0])
  IN [ file            |-> file,
       inferencePoints |-> inferencePoints,
       summary         |-> [ totalPoints    |-> Len(inferencePoints),
                             criticalIssues |-> counts.criticalIssues,
                             warnings       |-> counts.warnings ] ]

\* the filter predicate of transformApiResponse
MatchesFile(p, file) == p.file = file \/ EndsWith(p.file, Leaf(file))

\* Array.prototype.filter
RECURSIVE FilterPoints(_, _, _)
FilterPoints(points, file, i) ==
  IF i > Len(points) THEN <<>>
  ELSE (IF MatchesFile(points[i], file) THEN <<points[i]>> ELSE <<>>)
       \o FilterPoints(points, file, i + 1)

MapTransform(points) == [i \in 1..Len(points) |-> transformInferencePoint(points[i])]

transformApiResponse(file, points) ==
  createResultFromPoints(file, MapTransform(FilterPoints(points, file, 1)))

\* Map.prototype.has / the position of a key in an insertion-ordered Map
KeyIndex(map, key) ==
  IF \E k \in 1..Len(map) : map[k].key = key
  THEN CHOOSE k \in 1..Len(map) : map[k].key = key
  ELSE 0

GroupPoint_NoHasCheck(map, point) ==
  LET withKey == Append(map, [key |-> point.file, points |-> <<>>])
      k == Len(withKey)
  IN [withKey EXCEPT ![k].points = Append(@, transformInferencePoint(point))]

\* one iteration of the grouping loop of analyzeWorkspace
GroupPoint(map, point) ==
  LET withKey == IF KeyIndex(map, point.file) = 0
                 THEN Append(map, [key |-> point.file, points |-> <<>>])
                 ELSE map
      k == KeyIndex(withKey, point.file)
  IN [withKey EXCEPT ![k].points = Append(@, transformInferencePoint(point))]

\* for (const point of response.analysis.inferencePoints) { ... }
RECURSIVE GroupByFile(_, _, _)
GroupByFile(points, i, map) ==
  IF i > Len(points) THEN map
  ELSE GroupByFile(points, i + 1, GroupPoint(map, points[i]))

\* for (const [fileName, points] of resultsByFile) { if (points.length > 0) ... }
RECURSIVE CreateResults(_, _)
CreateResults(map, k) ==
  IF k > Len(map) THEN <<>>
  ELSE (IF Len(map[k].points) > 0
        THEN <<createResultFromPoints(map[k].key, map[k].points)>>
        ELSE <<>>)
       \o CreateResults(map, k + 1)

----------------------------------------------------------------------------
(* Inputs of the aggregation paths: responses whose points differ in file,   *)
(* line and id, responses whose points are call sites of one line, and       *)
(* responses whose points differ in their issues.                            *)

LocatedPoints ==
  [ id : {None, Some(Str_p)}, file : Tags, line : LineNumbers, column : {None},
    issues : {Some(<<>>)}, confidence : {None} ]

SameLinePoints ==
  [ id : {None, Some(EmptyStr)}, file : {Str_da}, line : {12},
    column : OptionOf(Columns), issues : {Some(<<>>)}, confidence : {None} ]

AggSeverities == {"critical", "warning", "info", "notice"}

IssuePoints(n) ==
  [ id : {None}, file : {Str_da}, line : {1}, column : {None},
    issues : {Some(s) : s \in SeqsUpTo(WireIssues(AggSeverities), n)},
    confidence : {None} ]

\* responses of at most k points carrying at most n issues in all
RECURSIVE IssueResponses(_, _)
IssueResponses(k, n) ==
  {<<>>} \cup
  (IF k = 0 THEN {}
   ELSE UNION { { <<p>> \o rest : rest \in IssueResponses(k - 1, n - Len(p.issues[1])) }
                : p \in IssuePoints(n) })

AggregatorInputs ==
  SeqsUpTo(LocatedPoints, MaxPoints) \cup SeqsUpTo(SameLinePoints, MaxPoints)
    \cup IssueResponses(MaxPoints, MaxTotalIssues)

InitAggregate ==
  /\ fileName \in {Str_da, Str_b}
  /\ apiPoints \in AggregatorInputs
  /\ path = "input"
  /\ produced = <<>>
  /\ NormIdle
  /\ CmdIdle

\* AnalysisRunner.analyzeFile after a successful reply
AggregateSingle ==
  /\ path = "input"
  /\ path' = "single"
  /\ produced' = <<transformApiResponse(fileName, apiPoints)>>
  /\ UNCHANGED <<fileName, apiPoints, normVars, cmdVars>>

\* AnalysisRunner.analyzeWorkspace after a successful reply
AggregateWorkspace ==
  /\ path = "input"
  /\ path' = "workspace"
  /\ produced' = CreateResults(GroupByFile(apiPoints, 1, <<>>), 1)
  /\ UNCHANGED <<fileName, apiPoints, normVars, cmdVars>>

NextAggregate == AggregateSingle \/ AggregateWorkspace

SpecAggregate == InitAggregate /\ [][NextAggregate]_vars

----------------------------------------------------------------------------
(* Analysis client *)

WorkspaceFiles == {Str_da, Str_b}

\* a reply of the server: response.ok and the body response.json() yields
\* (json = FALSE: the body is no JSON, response.json() throws)
Body(json, error, hint, analysis) ==
  [json |-> json, error |-> error, hint |-> hint, analysis |-> analysis]

\* callAnalysisAPI: both branches on response.ok return the parsed body
callAnalysisAPI(reply) == IF ~reply.ok THEN reply.body ELSE reply.body

\* 'error' in response
HasError(body) == body.error # None

TruthyText(o) == o # None /\ o[1] # ""

\* response.error + (response.hint ? ` (${response.hint})` : ''), as its fragments
ErrorMessage(body) ==
  <<body.error[1]>> \o (IF TruthyText(body.hint) THEN <<" (", body.hint[1], ")">> ELSE <<>>)

TokenMissing == <<"PeakInfer token not configured">>
ReadError    == <<"cannot open file">>
JsonError    == <<"Unexpected token in JSON">>
TypeError    == <<"Cannot read properties of undefined">>

Failure(message) == [kind |-> "Failure", message |-> message]
Success == [kind |-> "Success", message |-> <<>>]
NoOutcome == [kind |-> "none", message |-> <<>>]

----------------------------------------------------------------------------
(* Sinks: DiagnosticsManager and ResultsPanel *)

clear == [f \in WorkspaceFiles |-> <<>>]

clearFile(d, f) == [d EXCEPT ![f] = <<>>]

updateFromAnalysis(d, result) == [d EXCEPT ![result.file] = result.inferencePoints]

RECURSIVE updateFromMultipleAnalyses(_, _, _)
updateFromMultipleAnalyses(d, rs, k) ==
  IF k > Len(rs) THEN d
  ELSE updateFromMultipleAnalyses(updateFromAnalysis(d, rs[k]), rs, k + 1)

updateResults(rs) == rs

----------------------------------------------------------------------------
(* Inputs of the commands *)

FlowPoints ==
  [ id : {None}, file : WorkspaceFiles, line : {1}, column : {None},
    issues : {Some(<<>>)}, confidence : {None} ]

Replies ==
  [ ok : BOOLEAN,
    body : {Body(FALSE, None, None, None), Body(TRUE, None, None, None)}
           \cup {Body(TRUE, Some("Insufficient credits"), h, None)
                   : h \in {None, Some(""), Some("Buy credits")}}
           \cup {Body(TRUE, None, None, Some(ps)) : ps \in SeqsUpTo(FlowPoints, MaxPoints)} ]

\* what a sequence of results holds for file f (no result: no inference
\* points); read by the history variable lastAnalysis and by the properties
PointsFor(rs, f) ==
  IF \E k \in 1..Len(rs) : rs[k].file = f
  THEN (CHOOSE r \in {rs[k] : k \in 1..Len(rs)} : r.file = f).inferencePoints
  ELSE <<>>

----------------------------------------------------------------------------
(* Commands *)

CanStart == pc \in {"Idle", "Done", "Failed"} /\ invocations < MaxInvocations

\* command analyzeFile up to the fetch of AnalysisRunner.analyzeFile:
\* validateToken and openTextDocument may throw
StartFile ==
  \E f \in WorkspaceFiles, start \in {"ok", "noToken", "unreadable"} :
    /\ CanStart
    /\ cmd' = "file" /\ uri' = f
    /\ response' = None /\ httpOk' = TRUE
    /\ resultsByFile' = <<>> /\ results' = <<>>
    /\ cancelled' = FALSE /\ cancelPhase' = "none"
    /\ invocations' = invocations + 1
    /\ IF start = "ok"
       THEN pc' = "Requesting" /\ requests' = 1 /\ outcome' = NoOutcome
       ELSE /\ pc' = "Failed" /\ requests' = 0
            /\ outcome' = Failure(IF start = "noToken" THEN TokenMissing ELSE ReadError)
    /\ UNCHANGED <<diagnostics, panel, lastAnalysis, normVars, aggVars>>

\* the reply arrives: the rest of AnalysisRunner.analyzeFile and of the command
FileReply ==
  \E reply \in Replies :
    /\ cmd = "file" /\ pc = "Requesting"
    /\ httpOk' = reply.ok
    /\ UNCHANGED <<cmd, uri, requests, resultsByFile, cancelled, cancelPhase, invocations,
                   normVars, aggVars>>
    /\ IF ~reply.body.json
       THEN /\ response' = None
            /\ outcome' = Failure(JsonError) /\ pc' = "Failed"
            /\ UNCHANGED <<results, diagnostics, panel, lastAnalysis>>
       ELSE
         LET data == callAnalysisAPI(reply) IN
         /\ response' = Some(data)
         /\ IF HasError(data)
            THEN /\ outcome' = Failure(ErrorMessage(data)) /\ pc' = "Failed"
                 /\ UNCHANGED <<results, diagnostics, panel, lastAnalysis>>
            ELSE IF data.analysis = None
            THEN /\ outcome' = Failure(TypeError) /\ pc' = "Failed"
                 /\ UNCHANGED <<results, diagnostics, panel, lastAnalysis>>
            ELSE
              LET result == transformApiResponse(uri, data.analysis[1]) IN
              /\ outcome' = Success /\ pc' = "Done"
              /\ results' = <<result>>
              /\ lastAnalysis' = [lastAnalysis EXCEPT ![uri] = Some(result.inferencePoints)]
              /\ IF Len(result.inferencePoints) = 0
                 THEN /\ diagnostics' = clearFile(diagnostics, uri)
                      /\ panel' = panel
                 ELSE /\ diagnostics' = updateFromAnalysis(diagnostics, result)
                      /\ panel' = updateResults(<<result>>)

\* command analyzeWorkspace: diagnosticsManager.clear(), then validateToken
StartWorkspace ==
  \E hasToken \in BOOLEAN :
    /\ CanStart
    /\ cmd' = "workspace" /\ uri' = uri
    /\ requests' = 0 /\ response' = None /\ httpOk' = TRUE
    /\ resultsByFile' = <<>> /\ results' = <<>>
    /\ cancelled' = FALSE /\ cancelPhase' = "none"
    /\ invocations' = invocations + 1
    /\ diagnostics' = clear
    /\ IF hasToken
       THEN pc' = "Collecting" /\ outcome' = NoOutcome
       ELSE pc' = "Failed" /\ outcome' = Failure(TokenMissing)
    /\ UNCHANGED <<panel, lastAnalysis, normVars, aggVars>>

\* the files are collected and the one request is sent
Collect ==
  /\ cmd = "workspace" /\ pc = "Collecting"
  /\ pc' = "Requesting"
  /\ requests' = requests + 1
  /\ UNCHANGED <<cmd, uri, response, httpOk, resultsByFile, results, outcome,
                 cancelled, cancelPhase, diagnostics, panel, lastAnalysis, invocations,
                 normVars, aggVars>>

WorkspaceReply_RetriesOnError ==
  \E reply \in Replies :
    /\ cmd = "workspace" /\ pc = "Requesting"
    /\ httpOk' = reply.ok
    /\ UNCHANGED <<cmd, uri, resultsByFile, results, cancelled, cancelPhase,
                   diagnostics, panel, lastAnalysis, invocations, normVars, aggVars>>
    /\ IF ~reply.body.json
       THEN /\ response' = None /\ requests' = requests
            /\ outcome' = Failure(JsonError) /\ pc' = "Failed"
       ELSE
         LET data == callAnalysisAPI(reply) IN
         /\ response' = Some(data)
         /\ IF HasError(data) /\ requests < 2
            THEN /\ outcome' = NoOutcome /\ pc' = "Requesting"
                 /\ requests' = requests + 1
            ELSE IF HasError(data)
            THEN /\ outcome' = Failure(ErrorMessage(data)) /\ pc' = "Failed"
                 /\ requests' = requests
            ELSE /\ outcome' = NoOutcome /\ pc' = "Grouping"
                 /\ requests' = requests

\* the reply arrives: callAnalysisAPI returns and the error check is made
WorkspaceReply ==
  \E reply \in Replies :
    /\ cmd = "workspace" /\ pc = "Requesting"
    /\ httpOk' = reply.ok
    /\ UNCHANGED <<cmd, uri, requests, resultsByFile, results, cancelled, cancelPhase,
                   diagnostics, panel, lastAnalysis, invocations, normVars, aggVars>>
    /\ IF ~reply.body.json
       THEN /\ response' = None
            /\ outcome' = Failure(JsonError) /\ pc' = "Failed"
       ELSE
         LET data == callAnalysisAPI(reply) IN
         /\ response' = Some(data)
         /\ IF HasError(data)
            THEN outcome' = Failure(ErrorMessage(data)) /\ pc' = "Failed"
            ELSE outcome' = NoOutcome /\ pc' = "Grouping"

\* the grouping loop of AnalysisRunner.analyzeWorkspace
Group ==
  /\ cmd = "workspace" /\ pc = "Grouping"
  /\ IF response[1].analysis = None
     THEN /\ outcome' = Failure(TypeError) /\ pc' = "Failed"
          /\ resultsByFile' = resultsByFile
     ELSE /\ resultsByFile' = GroupByFile(response[1].analysis[1], 1, <<>>)
          /\ pc' = "Aggregating" /\ outcome' = outcome
  /\ UNCHANGED <<cmd, uri, requests, response, httpOk, results, cancelled, cancelPhase,
                 diagnostics, panel, lastAnalysis, invocations, normVars, aggVars>>

\* the result loop of AnalysisRunner.analyzeWorkspace, its return, and the
\* rest of the command: the sinks are updated unless there is no result
Aggregate ==
  /\ cmd = "workspace" /\ pc = "Aggregating"
  /\ LET rs == CreateResults(resultsByFile, 1) IN
     /\ results' = rs
     /\ outcome' = Success /\ pc' = "Done"
     /\ lastAnalysis' = [f \in WorkspaceFiles |-> Some(PointsFor(rs, f))]
     /\ IF Len(rs) = 0
        THEN UNCHANGED <<diagnostics, panel>>
        ELSE /\ diagnostics' = updateFromMultipleAnalyses(diagnostics, rs, 1)
             /\ panel' = updateResults(rs)
  /\ UNCHANGED <<cmd, uri, requests, response, httpOk, resultsByFile, cancelled, cancelPhase,
                 invocations, normVars, aggVars>>

\* the user presses Cancel on the progress notification while the command is
\* suspended; the command never reads token.isCancellationRequested
Cancel ==
  /\ cmd = "workspace" /\ pc \in {"Collecting", "Requesting"}
  /\ ~cancelled
  /\ cancelled' = TRUE /\ cancelPhase' = pc
  /\ UNCHANGED <<pc, cmd, uri, requests, response, httpOk, resultsByFile, results,
                 outcome, diagnostics, panel, lastAnalysis, invocations,
                 normVars, aggVars>>

Init == NormIdle /\ AggIdle /\ CmdIdle

Next ==
  \/ StartFile
  \/ FileReply
  \/ StartWorkspace
  \/ Collect
  \/ WorkspaceReply
  \/ Group
  \/ Aggregate
  \/ Cancel

Spec == Init /\ [][Next]_vars

----------------------------------------------------------------------------
(* Properties of the aggregation paths (SpecAggregate) *)

\* C1: every inference point of a produced AnalysisResult has the result's file,
\* or a file whose leaf name is the leaf name of the result's file.
C1_PointsBelongToResultFile ==
  \A k \in 1..Len(produced) :
    \A m \in 1..Len(produced[k].inferencePoints) :
      LET q == produced[k].inferencePoints[m]
      IN q.file = produced[k].file \/ Leaf(q.file) = Leaf(produced[k].file)

\* positions <<i, j>> of the issues of a result whose severity is in S
IssueSlots(r, S) ==
  UNION { { <<i, j>> : j \in {n \in 1..Len(r.inferencePoints[i].issues) :
                                r.inferencePoints[i].issues[n].severity \in S} }
          : i \in 1..Len(r.inferencePoints) }

\* C3: totalPoints is the number of points, criticalIssues the number of issues
\* of severity critical, warnings the number of issues of severity high or
\* medium; low issues are counted in neither, so the three classes add up to
\* the number of issues.
C3_SummaryCounts ==
  \A k \in 1..Len(produced) :
    LET r == produced[k]
        allIssues == UNION { {<<i, j>> : j \in 1..Len(r.inferencePoints[i].issues)}
                             : i \in 1..Len(r.inferencePoints) }
    IN /\ r.summary.totalPoints = Len(r.inferencePoints)
       /\ r.summary.criticalIssues = Cardinality(IssueSlots(r, {"critical"}))
       /\ r.summary.warnings = Cardinality(IssueSlots(r, {"high", "medium"}))
       /\ r.summary.criticalIssues + r.summary.warnings
            + Cardinality(IssueSlots(r, {"low"})) = Cardinality(allIssues)

C3_Witness ==
  \E k \in 1..Len(produced) :
    LET r == produced[k]
    IN /\ Len(r.inferencePoints) = 2
       /\ Len(r.inferencePoints[1].issues) = 2
       /\ r.inferencePoints[1].issues[1].severity = "low"
       /\ r.inferencePoints[1].issues[2].severity = "critical"
       /\ r.inferencePoints[2].issues = <<[severity |-> "medium"]>>
       /\ r.summary = [totalPoints |-> 2, criticalIssues |-> 1, warnings |-> 1]

FirstIndex(tag) == CHOOSE i \in 1..Len(apiPoints) :
                     /\ apiPoints[i].file = tag
                     /\ \A j \in 1..(i - 1) : apiPoints[j].file # tag

RECURSIVE SumTotalPoints(_, _)
SumTotalPoints(rs, k) ==
  IF k > Len(rs) THEN 0 ELSE rs[k].summary.totalPoints + SumTotalPoints(rs, k + 1)

\* C4: the workspace path returns one result per distinct file tag, in order of
\* the tag's first appearance; each holds exactly the points with its tag, in
\* response order, and the totalPoints add up to the number of wire points.
C4_GroupedByTag ==
  path = "workspace" =>
    /\ {produced[k].file : k \in 1..Len(produced)}
         = {apiPoints[i].file : i \in 1..Len(apiPoints)}
    /\ \A k, l \in 1..Len(produced) :
         k < l => /\ produced[k].file # produced[l].file
                  /\ FirstIndex(produced[k].file) < FirstIndex(produced[l].file)
    /\ \A k \in 1..Len(produced) :
         LET r == produced[k]
             tagged == SelectSeq(apiPoints, LAMBDA p : p.file = r.file)
         IN /\ Len(r.inferencePoints) = Len(tagged)
            /\ \A m \in 1..Len(tagged) :
                 /\ r.inferencePoints[m].file = tagged[m].file
                 /\ r.inferencePoints[m].line = tagged[m].line
                 /\ Len(r.inferencePoints[m].issues) = Len(IssuesOrEmpty(tagged[m].issues))
                 /\ r.inferencePoints[m].column = tagged[m].column
                 /\ TruthyStr(tagged[m].id) => r.inferencePoints[m].id = tagged[m].id[1]
    /\ SumTotalPoints(produced, 1) = Len(apiPoints)

C4_Witness ==
  /\ path = "workspace"
  /\ Len(apiPoints) = 3
  /\ apiPoints[1].file = Str_b /\ apiPoints[1].line = 12
  /\ apiPoints[2].file = Str_da
  /\ apiPoints[3].file = Str_b /\ apiPoints[3].line = 1
  /\ Len(produced) = 2
  /\ produced[1].file = Str_b /\ produced[1].summary.totalPoints = 2
  /\ produced[2].file = Str_da /\ produced[2].summary.totalPoints = 1

\* the call site a point reports
Site(q) == <<q.file, q.line, q.column>>

\* C7: when the wire points carry no id (absent or empty), every normalized id
\* is "<file>:<line>" and no two inference points of one result that report
\* distinct call sites share an id.
C7_SynthesizedIdsUnique ==
  (\A i \in 1..Len(apiPoints) : ~TruthyStr(apiPoints[i].id)) =>
    \A k \in 1..Len(produced) :
      LET ps == produced[k].inferencePoints
      IN /\ \A m \in 1..Len(ps) : ps[m].id = ps[m].file \o <<":">> \o DecStr(ps[m].line)
         /\ \A m, n \in 1..Len(ps) : Site(ps[m]) # Site(ps[n]) => ps[m].id # ps[n].id

----------------------------------------------------------------------------
(* Properties of the commands (Spec) *)

Range(m) == {m[i] : i \in 1..Len(m)}

\* C5: the outcome is Success only for a 2xx reply with a well-formed payload;
\* a reply with an error body, 2xx or not, is a Failure carrying the server's
\* error and hint; no non-2xx reply is processed as a success payload.
C5_SuccessOnlyFor2xxPayload ==
  /\ outcome.kind = "Success" =>
       /\ httpOk
       /\ response # None /\ ~HasError(response[1]) /\ response[1].analysis # None
  /\ (outcome.kind # "none" /\ response # None /\ HasError(response[1])) =>
       /\ outcome.kind = "Failure"
       /\ outcome.message[1] = response[1].error[1]
       /\ TruthyText(response[1].hint) => response[1].hint[1] \in Range(outcome.message)
  /\ (~httpOk /\ response # None) => pc \notin {"Grouping", "Aggregating", "Done"}

\* C8: once a command has completed, what either sink holds for a file is the
\* result of the file's most recent successful analysis, and nothing when that
\* analysis found no inference points.
C8_SinksHoldLatestAnalysis ==
  pc \in {"Idle", "Done", "Failed"} =>
    \A f \in WorkspaceFiles :
      lastAnalysis[f] # None =>
        /\ diagnostics[f] = <<>> \/ diagnostics[f] = lastAnalysis[f][1]
        /\ PointsFor(panel, f) = <<>> \/ PointsFor(panel, f) = lastAnalysis[f][1]

WorkspaceOrder ==
  { <<"Collecting", "Requesting">>, <<"Requesting", "Grouping">>,
    <<"Grouping", "Aggregating">>, <<"Aggregating", "Done">> }

C9_FlowState ==
  cmd = "workspace" =>
    /\ requests <= 1
    /\ pc \in {"Requesting", "Grouping", "Aggregating", "Done"} => requests = 1
    /\ pc # "Done" => results = <<>>
    /\ pc = "Failed" => diagnostics = clear

C9_FlowStep ==
  /\ (cmd' = "workspace" /\ invocations' # invocations) =>
       /\ pc' \in {"Collecting", "Failed"}
       /\ requests' = 0 /\ panel' = panel
  /\ (cmd' = "workspace" /\ invocations' = invocations) =>
       /\ pc' # pc =>
            \/ <<pc, pc'>> \in WorkspaceOrder
            \/ pc' = "Failed" /\ pc \in {"Collecting", "Requesting", "Grouping", "Aggregating"}
       /\ requests' # requests =>
            pc = "Collecting" /\ pc' = "Requesting" /\ requests' = requests + 1
       /\ pc' # "Done" => panel' = panel /\ diagnostics' = diagnostics

\* C9: a workspace invocation goes Collecting -> Requesting -> Grouping ->
\* Aggregating -> Done in that order and sends exactly one request; when the
\* request fails it ends Failed, sends nothing more, produces no result and
\* hands nothing to the diagnostics or the panel sink.
C9_WorkspaceFlow == []C9_FlowState /\ [][C9_FlowStep]_vars

C9_Witness ==
  /\ cmd = "workspace" /\ pc = "Failed"
  /\ requests = 1
  /\ response # None /\ HasError(response[1])
  /\ panel # <<>>
  /\ results = <<>>

\* C10: after the user cancels a workspace analysis whose request is in
\* flight, neither sink is updated from that invocation.
C10_NoUpdateAfterCancel ==
  [][(cmd = "workspace" /\ cancelled /\ cancelPhase = "Requesting"
        /\ pc \notin {"Done", "Failed"})
       => (diagnostics' = diagnostics /\ panel' = panel)]_vars

----------------------------------------------------------------------------
\* the remapping table of the wire severities
SeverityTable ==
  [s \in WireSeverities |->
     IF s = "critical" THEN "critical"
     ELSE IF s = "warning" THEN "high"
     ELSE IF s = "info" THEN "low"
     ELSE "medium"]

\* C2: every wire issue's severity is remapped by the fixed table
\* critical->critical, warning->high, info->low, anything else->medium, so a
\* normalized severity is always one of critical, high, medium, low.
C2_SeverityMapping ==
  normPoint # None =>
    LET in  == IssuesOrEmpty(wirePoint.issues)
        out == normPoint[1].issues
    IN /\ Len(out) = Len(in)
       /\ \A i \in 1..Len(in) :
            /\ out[i].severity = SeverityTable[in[i].severity]
            /\ out[i].severity \in {"critical", "high", "medium", "low"}

C2_Witness ==
  /\ normPoint # None
  /\ wirePoint.issues # None
  /\ Len(wirePoint.issues[1]) = 2
  /\ wirePoint.issues[1][1].severity = "warning"
  /\ wirePoint.issues[1][2].severity = "high"
  /\ normPoint[1].issues[1].severity = "high"
  /\ normPoint[1].issues[2].severity = "medium"

\* C6: the normalized confidence is the wire confidence whenever the wire point
\* carries one (0 included), and 0.9 when the wire point omits it.
C6_ConfidenceKept ==
  normPoint # None =>
    IF wirePoint.confidence # None
    THEN normPoint[1].confidence = wirePoint.confidence[1]
    ELSE normPoint[1].confidence = DefaultConfidence

====
